---- MODULE Spec2Model ----
(***************************************************************************)
(* Model of backend/forge_planner_server.py: the /forge-plan handler, the  *)
(* fence stripper and the plan sanitizer.                                  *)
(*                                                                         *)
(* A Python str is a sequence of lexical atoms (TLA+ strings).  The atoms  *)
(* form a code: no atom is a concatenation of others, so two atom          *)
(* sequences are equal exactly when the texts they spell are equal.        *)
(* A Python value is a record tagged by its type in field t.               *)
(***************************************************************************)
EXTENDS Integers, Sequences, FiniteSets, TLC

\* ------------------------------ atoms ----------------------------------
BT == "TRIPLE-BACKTICK"
NL == "\n"
SP == " "
LS == "U+2028"
Q  == "\""
APOS == "APOSTROPHE"

STEPS == <<"steps">>
NOTES == <<"notes">>
RESPONSE == <<"response">>

NotValidJsonNote == <<"LLM output was not valid JSON; falling back to empty plan.">>
FrontendInvalidNote == <<"Backend received invalid JSON from frontend.">>
UnavailableNote == <<"Local LLM server unavailable; use heuristic planner.">>
UpstreamErrorNote == <<"Local LLM returned an error; use heuristic planner.">>
EnvelopeInvalidNote == <<"Local LLM responded with invalid JSON; using empty plan.">>

\* ------------------------------ values ---------------------------------
Str(s) == [t |-> "str", s |-> s]
Num(lit) == [t |-> "num", lit |-> lit]
Bool(b) == [t |-> "bool", b |-> b]
None == [t |-> "null"]
List(items) == [t |-> "list", items |-> items]
Dict(d) == [t |-> "obj", d |-> d]
Exc(name) == [t |-> "exc", name |-> name]

IsExc(v) == v.t = "exc"

\* bool(v)
Truthy(v) ==
    CASE v.t = "str" -> Len(v.s) > 0
      [] v.t = "num" -> v.lit # <<"0">>
      [] v.t = "bool" -> v.b
      [] v.t = "null" -> FALSE
      [] v.t = "list" -> Len(v.items) > 0
      [] v.t = "obj" -> Len(v.d) > 0

\* a dict is its insertion-ordered sequence of [k, v] items, keys unique
DictHas(d, k) == \E i \in 1..Len(d) : d[i].k = k
DictGet(d, k, default) ==
    IF DictHas(d, k) THEN d[CHOOSE i \in 1..Len(d) : d[i].k = k].v ELSE default
DictSet(d, k, v) ==
    IF DictHas(d, k)
    THEN [i \in 1..Len(d) |-> IF d[i].k = k THEN [k |-> k, v |-> v] ELSE d[i]]
    ELSE Append(d, [k |-> k, v |-> v])

\* ------------------------------ str methods ----------------------------
IsSpace(a) == a \in {SP, NL, LS}
IsLineBreak(a) == a \in {NL, LS}

RECURSIVE LStrip(_)
LStrip(s) == IF Len(s) > 0 /\ IsSpace(s[1]) THEN LStrip(Tail(s)) ELSE s

RECURSIVE RStrip(_)
RStrip(s) ==
    IF Len(s) > 0 /\ IsSpace(s[Len(s)]) THEN RStrip(SubSeq(s, 1, Len(s) - 1)) ELSE s

Strip(s) == RStrip(LStrip(s))

StartsWithFence(s) == Len(s) > 0 /\ s[1] = BT

FirstBreak(s) == CHOOSE i \in 1..Len(s) :
                    IsLineBreak(s[i]) /\ \A j \in 1..(i - 1) : ~IsLineBreak(s[j])

RECURSIVE SplitLines(_)
SplitLines(s) ==
    IF Len(s) = 0 THEN <<>>
    ELSE IF \A i \in 1..Len(s) : ~IsLineBreak(s[i]) THEN <<s>>
    ELSE <<SubSeq(s, 1, FirstBreak(s) - 1)>>
            \o SplitLines(SubSeq(s, FirstBreak(s) + 1, Len(s)))

RECURSIVE Join(_, _)
Join(sep, lines) ==
    IF Len(lines) = 0 THEN <<>>
    ELSE IF Len(lines) = 1 THEN lines[1]
    ELSE lines[1] \o <<sep>> \o Join(sep, Tail(lines))

\* ------------------------------ repr / str -----------------------------
ReprAtom(a) == IF a = NL THEN "\\n" ELSE IF a = LS THEN "\\u2028" ELSE a

RECURSIVE PyRepr(_), ReprItems(_), ReprPairs(_)
PyRepr(v) ==
    CASE v.t = "str" -> <<APOS>> \o [i \in 1..Len(v.s) |-> ReprAtom(v.s[i])] \o <<APOS>>
      [] v.t = "num" -> v.lit
      [] v.t = "bool" -> IF v.b THEN <<"True">> ELSE <<"False">>
      [] v.t = "null" -> <<"None">>
      [] v.t = "list" -> <<"[">> \o ReprItems(v.items) \o <<"]">>
      [] v.t = "obj" -> <<"{">> \o ReprPairs(v.d) \o <<"}">>
ReprItems(items) ==
    IF Len(items) = 0 THEN <<>>
    ELSE IF Len(items) = 1 THEN PyRepr(items[1])
    ELSE PyRepr(items[1]) \o <<",", SP>> \o ReprItems(Tail(items))
ReprPairs(d) ==
    IF Len(d) = 0 THEN <<>>
    ELSE LET one == PyRepr(Str(d[1].k)) \o <<":", SP>> \o PyRepr(d[1].v)
         IN IF Len(d) = 1 THEN one ELSE one \o <<",", SP>> \o ReprPairs(Tail(d))

PyStr(v) == IF v.t = "str" THEN v.s ELSE PyRepr(v)

\* ------------------------------ json.loads -----------------------------
IsJsonWs(a) == a \in {SP, NL}
IsControl(a) == a = NL
IsDigit(a) == a = "1"

Fail == [ok |-> FALSE]
Ok(v, p) == [ok |-> TRUE, val |-> v, pos |-> p]

RECURSIVE SkipWs(_, _)
SkipWs(s, i) == IF i <= Len(s) /\ IsJsonWs(s[i]) THEN SkipWs(s, i + 1) ELSE i

RECURSIVE SkipDigits(_, _)
SkipDigits(s, i) == IF i <= Len(s) /\ IsDigit(s[i]) THEN SkipDigits(s, i + 1) ELSE i

\* i is the position after the opening quote
ScanString(s, i) ==
    IF \A j \in i..Len(s) : s[j] # Q THEN Fail
    ELSE LET e == CHOOSE j \in i..Len(s) : s[j] = Q /\ \A k \in i..(j - 1) : s[k] # Q
         IN IF \E k \in i..(e - 1) : IsControl(s[k]) THEN Fail
            ELSE Ok(Str(SubSeq(s, i, e - 1)), e + 1)

RECURSIVE ParseValue(_, _), ParseMembers(_, _, _), ParseElements(_, _, _)
ParseValue(s, i) ==
    IF i > Len(s) THEN Fail
    ELSE CASE s[i] = Q -> ScanString(s, i + 1)
           [] s[i] = "{" ->
                LET j == SkipWs(s, i + 1)
                IN IF j <= Len(s) /\ s[j] = "}" THEN Ok(Dict(<<>>), j + 1)
                   ELSE ParseMembers(s, i + 1, <<>>)
           [] s[i] = "[" ->
                LET j == SkipWs(s, i + 1)
                IN IF j <= Len(s) /\ s[j] = "]" THEN Ok(List(<<>>), j + 1)
                   ELSE ParseElements(s, i + 1, <<>>)
           [] s[i] = "null" -> Ok(None, i + 1)
           [] s[i] = "true" -> Ok(Bool(TRUE), i + 1)
           [] s[i] = "false" -> Ok(Bool(FALSE), i + 1)
           [] IsDigit(s[i]) -> Ok(Num(SubSeq(s, i, SkipDigits(s, i) - 1)), SkipDigits(s, i))
           [] OTHER -> Fail
ParseMembers(s, i, d) ==
    LET j == SkipWs(s, i)
    IN IF j > Len(s) \/ s[j] # Q THEN Fail
       ELSE LET key == ScanString(s, j + 1)
            IN IF ~key.ok THEN Fail
               ELSE LET c == SkipWs(s, key.pos)
                    IN IF c > Len(s) \/ s[c] # ":" THEN Fail
                       ELSE LET v == ParseValue(s, SkipWs(s, c + 1))
                            IN IF ~v.ok THEN Fail
                               ELSE LET e == SkipWs(s, v.pos)
                                        d2 == DictSet(d, key.val.s, v.val)
                                    IN IF e > Len(s) THEN Fail
                                       ELSE IF s[e] = "}" THEN Ok(Dict(d2), e + 1)
                                       ELSE IF s[e] = "," THEN ParseMembers(s, e + 1, d2)
                                       ELSE Fail
ParseElements(s, i, acc) ==
    LET v == ParseValue(s, SkipWs(s, i))
    IN IF ~v.ok THEN Fail
       ELSE LET e == SkipWs(s, v.pos)
            IN IF e > Len(s) THEN Fail
               ELSE IF s[e] = "]" THEN Ok(List(Append(acc, v.val)), e + 1)
               ELSE IF s[e] = "," THEN ParseElements(s, e + 1, Append(acc, v.val))
               ELSE Fail

\* json.loads(s) for a str s: [ok |-> FALSE] stands for JSONDecodeError
json_loads(s) ==
    LET r == ParseValue(s, SkipWs(s, 1))
    IN IF ~r.ok THEN Fail
       ELSE IF SkipWs(s, r.pos) # Len(s) + 1 THEN Fail
       ELSE r

\* ------------------------------ helpers of the server ------------------
\* mutant: the opening line is dropped even when it is the only line
strip_code_fences_NoLineCount(text) ==
    IF ~Truthy(text) THEN text
    ELSE IF text.t # "str" THEN Exc("AttributeError")
    ELSE LET stripped == Strip(text.s)
         IN IF StartsWithFence(stripped)
            THEN LET lines == SplitLines(stripped)
                 IN IF StartsWithFence(lines[1])
                    THEN LET rest == Tail(lines)
                             kept == IF Len(rest) > 0 /\ StartsWithFence(Strip(rest[Len(rest)]))
                                     THEN SubSeq(rest, 1, Len(rest) - 1)
                                     ELSE rest
                         IN Str(Strip(Join(NL, kept)))
                    ELSE Str(stripped)
            ELSE Str(stripped)

\* mutant: text that carries no fence is returned untrimmed
strip_code_fences_NoTrim(text) ==
    IF ~Truthy(text) THEN text
    ELSE IF text.t # "str" THEN Exc("AttributeError")
    ELSE LET stripped == Strip(text.s)
         IN IF StartsWithFence(stripped)
            THEN LET lines == SplitLines(stripped)
                 IN IF Len(lines) >= 2 /\ StartsWithFence(lines[1])
                    THEN LET rest == Tail(lines)
                             kept == IF Len(rest) > 0 /\ StartsWithFence(Strip(rest[Len(rest)]))
                                     THEN SubSeq(rest, 1, Len(rest) - 1)
                                     ELSE rest
                         IN Str(Strip(Join(NL, kept)))
                    ELSE Str(stripped)
            ELSE text

strip_code_fences(text) ==
    IF ~Truthy(text) THEN text
    ELSE IF text.t # "str" THEN Exc("AttributeError")
    ELSE LET stripped == Strip(text.s)
         IN IF StartsWithFence(stripped)
            THEN LET lines == SplitLines(stripped)
                 IN IF Len(lines) >= 2 /\ StartsWithFence(lines[1])
                    THEN LET rest == Tail(lines)
                             kept == IF Len(rest) > 0 /\ StartsWithFence(Strip(rest[Len(rest)]))
                                     THEN SubSeq(rest, 1, Len(rest) - 1)
                                     ELSE rest
                         IN Str(Strip(Join(NL, kept)))
                    ELSE Str(stripped)
            ELSE Str(stripped)

FallbackPlan(notes) == Dict(<<[k |-> STEPS, v |-> List(<<>>)], [k |-> NOTES, v |-> Str(notes)]>>)

\* mutant: a non-string notes is left as it is
ensure_keys_NoCoercion(d0) ==
    LET d1 == IF ~DictHas(d0, STEPS) \/ DictGet(d0, STEPS, None).t # "list"
              THEN DictSet(d0, STEPS, List(<<>>))
              ELSE d0
    IN IF ~DictHas(d1, NOTES) THEN DictSet(d1, NOTES, Str(<<>>)) ELSE d1

\* lines 134-141 on a dict
ensure_keys(d0) ==
    LET d1 == IF ~DictHas(d0, STEPS) \/ DictGet(d0, STEPS, None).t # "list"
              THEN DictSet(d0, STEPS, List(<<>>))
              ELSE d0
    IN IF DictHas(d1, NOTES) /\ DictGet(d1, NOTES, None).t # "str"
       THEN DictSet(d1, NOTES, Str(PyStr(DictGet(d1, NOTES, None))))
       ELSE IF ~DictHas(d1, NOTES)
       THEN DictSet(d1, NOTES, Str(<<>>))
       ELSE d1

\* mutant: a parse failure is answered with an empty object
safe_parse_llm_json_EmptyOnFailure(raw_text) ==
    LET cleaned_text == strip_code_fences(raw_text)
    IN IF IsExc(cleaned_text) THEN cleaned_text
       ELSE LET r == IF cleaned_text.t = "str" THEN json_loads(cleaned_text.s) ELSE Fail
            IN IF ~r.ok THEN Dict(ensure_keys(<<>>))
               ELSE IF r.val.t # "obj" THEN Exc("TypeError")
               ELSE Dict(ensure_keys(r.val.d))

\* json.loads raises TypeError on a non-str; "in" and item assignment raise
\* TypeError on every parsed value that is not a dict
safe_parse_llm_json(raw_text) ==
    LET cleaned_text == strip_code_fences(raw_text)
    IN IF IsExc(cleaned_text) THEN cleaned_text
       ELSE LET r == IF cleaned_text.t = "str" THEN json_loads(cleaned_text.s) ELSE Fail
            IN IF ~r.ok THEN FallbackPlan(NotValidJsonNote)
               ELSE IF r.val.t # "obj" THEN Exc("TypeError")
               ELSE Dict(ensure_keys(r.val.d))

\* prompt text: the stripped spec followed by the fixed blocks and the two
\* serialised mappings; kept as its three variable parts
build_llm_prompt(spec, schema, context) ==
    IF spec.t # "str" THEN Exc("AttributeError")
    ELSE [t |-> "prompt", spec |-> Strip(spec.s), schema |-> schema, context |-> context]

OLLAMA_MODEL == "llama3.1"
LLM_TEMPERATURE == "0.2"
MAX_TOKENS == 1024

\* x or default
OrElse(x, default) == IF Truthy(x) THEN x ELSE default

Respond(payload, status) == [status |-> status, body |-> payload]
\* an exception that leaves forge_plan: the framework answers 500
Unhandled(exc) == [status |-> 500, body |-> exc]

\* ------------------------------ inputs ---------------------------------
MaxLen == 3

Absent == [t |-> "absent"]
Unset == [t |-> "unset"]

RECURSIVE Encode(_), EncodeItems(_), EncodePairs(_)
Encode(v) ==
    CASE v.t = "str" -> <<Q>> \o v.s \o <<Q>>
      [] v.t = "num" -> v.lit
      [] v.t = "bool" -> IF v.b THEN <<"true">> ELSE <<"false">>
      [] v.t = "null" -> <<"null">>
      [] v.t = "list" -> <<"[">> \o EncodeItems(v.items) \o <<"]">>
      [] v.t = "obj" -> <<"{">> \o EncodePairs(v.d) \o <<"}">>
EncodeItems(items) ==
    IF Len(items) = 0 THEN <<>>
    ELSE IF Len(items) = 1 THEN Encode(items[1])
    ELSE Encode(items[1]) \o <<",">> \o EncodeItems(Tail(items))
EncodePairs(d) ==
    IF Len(d) = 0 THEN <<>>
    ELSE LET one == <<Q>> \o d[1].k \o <<Q, ":">> \o Encode(d[1].v)
         IN IF Len(d) = 1 THEN one ELSE one \o <<",", SP>> \o EncodePairs(Tail(d))

Fenced(tag, text) == <<BT>> \o tag \o <<NL>> \o text \o <<NL, BT>>

CutStep == Dict(<<[k |-> <<"operationType">>, v |-> Str(<<"cut">>)],
                  [k |-> <<"params">>, v |-> Dict(<<>>)]>>)

StepsLists == {List(<<>>), List(<<CutStep>>)}
NotesStrings == {Str(<<"ok">>), Str(<<>>), Str(<<"a", LS, "b">>)}
NonLists == {Str(<<"x">>), Num(<<"1">>), None, Dict(<<>>)}
NonStrings == {None, Num(<<"1">>), Bool(TRUE), List(<<Num(<<"1">>), Str(<<"a">>)>>),
               Dict(<<[k |-> <<"a">>, v |-> None]>>)}

Member(k, v) == IF v = Absent THEN <<>> ELSE <<[k |-> k, v |-> v]>>

PlanObjects == {Dict(Member(STEPS, st) \o Member(NOTES, n)) : st \in StepsLists, n \in NotesStrings}
LooseObjects == {Dict(Member(STEPS, st) \o Member(NOTES, n)) :
                    st \in {Absent} \cup StepsLists \cup NonLists,
                    n \in {Absent} \cup NotesStrings \cup NonStrings}
                \cup {Dict(Member(NOTES, Str(<<"ok">>)) \o Member(<<"extra">>, Num(<<"1">>)))}
NonObjects == {List(<<>>), List(<<Str(STEPS)>>), Str(STEPS), Num(<<"1">>), None, Bool(FALSE)}

SeqsUpTo(S, n) == UNION {[1..k -> S] : k \in 0..n}

FreeAlphabet == {BT, "json", NL, SP, LS, "x", "{", "}", "1"}
FreeTexts == SeqsUpTo(FreeAlphabet, MaxLen)
EncodedTexts ==
    UNION {{Encode(v), Fenced(<<>>, Encode(v)), Fenced(<<"json">>, Encode(v)),
            <<SP>> \o Encode(v) \o <<NL>>} : v \in LooseObjects \cup NonObjects}
Texts == FreeTexts \cup EncodedTexts

\* what requests.Response.json() yields for the reply bodies considered
Unparseable == [parses |-> FALSE]
Parsed(v) == [parses |-> TRUE, json |-> v]

Envelopes ==
    {List(<<>>), Str(<<"x">>), None, Dict(<<>>),
     Dict(<<[k |-> <<"done">>, v |-> Bool(TRUE)]>>)}
    \cup {Dict(<<[k |-> RESPONSE, v |-> r]>>) :
            r \in {None, Num(<<"0">>), Num(<<"1">>), List(<<>>), List(<<None>>),
                   Bool(TRUE), Dict(<<>>)}}
    \cup {Dict(<<[k |-> RESPONSE, v |-> Str(x)]>>) : x \in Texts}

TransportError == [kind |-> "RequestException"]
Response(ok, body) == [kind |-> "response", ok |-> ok, body |-> body]

Replies ==
    {TransportError}
    \cup {Response(FALSE, b) : b \in {Unparseable, Parsed(Dict(<<>>)), Parsed(List(<<>>))}}
    \cup {Response(TRUE, Unparseable)}
    \cup {Response(TRUE, Parsed(v)) : v \in Envelopes}

\* what request.get_json(force=True, silent=False) yields: raises or a value
Bodies ==
    {Unparseable}
    \cup {Parsed(v) : v \in
            {List(<<>>), None, Str(<<"x">>), Dict(<<>>),
             Dict(<<[k |-> <<"spec">>, v |-> Str(<<SP, "forge", NL>>)],
                    [k |-> <<"schema">>, v |-> Dict(<<[k |-> <<"operations">>, v |-> List(<<>>)]>>)],
                    [k |-> <<"context">>, v |-> Dict(<<>>)]>>),
             Dict(<<[k |-> <<"spec">>, v |-> None],
                    [k |-> <<"schema">>, v |-> List(<<Num(<<"1">>)>>)],
                    [k |-> <<"context">>, v |-> Str(<<"x">>)]>>),
             Dict(<<[k |-> <<"spec">>, v |-> Num(<<"1">>)]>>)}}

\* ------------------------------ forge_plan -----------------------------
VARIABLES pc, method, body, ollama_body, calls, reply, raw_output, cleaned, response
vars == <<pc, method, body, ollama_body, calls, reply, raw_output, cleaned, response>>

Init ==
    /\ pc = "received"
    /\ method \in {"POST", "OPTIONS"}
    /\ body \in Bodies
    /\ ollama_body = Unset
    /\ calls = 0
    /\ reply = Unset
    /\ raw_output = Unset
    /\ cleaned = Unset
    /\ response = Unset

\* lines 176-219: up to the outbound call; either a response or the body to post
prepare_call(m, b) ==
    IF m = "OPTIONS" THEN [done |-> TRUE, response |-> Respond(Dict(<<>>), 204)]
    ELSE IF ~b.parses
    THEN [done |-> TRUE, response |-> Respond(FallbackPlan(FrontendInvalidNote), 400)]
    ELSE IF b.json.t # "obj"
    THEN [done |-> TRUE, response |-> Unhandled(Exc("AttributeError"))]
    ELSE LET payload == b.json.d
             spec == OrElse(DictGet(payload, <<"spec">>, None), Str(<<>>))
             schema0 == OrElse(DictGet(payload, <<"schema">>, None), Dict(<<>>))
             context0 == OrElse(DictGet(payload, <<"context">>, None), Dict(<<>>))
             schema == IF schema0.t # "obj" THEN Dict(<<>>) ELSE schema0
             context == IF context0.t # "obj" THEN Dict(<<>>) ELSE context0
             prompt == build_llm_prompt(spec, schema, context)
         IN IF IsExc(prompt) THEN [done |-> TRUE, response |-> Unhandled(prompt)]
            ELSE [done |-> FALSE,
                  ollama_body |-> [model |-> OLLAMA_MODEL, prompt |-> prompt, stream |-> FALSE,
                                   options |-> [temperature |-> LLM_TEMPERATURE,
                                                num_predict |-> MAX_TOKENS]]]

\* mutant: the envelope is parsed before the status is looked at
check_reply_ParseFirst(r) ==
    IF r.kind = "RequestException"
    THEN [done |-> TRUE, response |-> Respond(FallbackPlan(UnavailableNote), 502)]
    ELSE IF ~r.body.parses
    THEN [done |-> TRUE, response |-> Respond(FallbackPlan(EnvelopeInvalidNote), 502)]
    ELSE IF ~r.ok
    THEN [done |-> TRUE, response |-> Respond(FallbackPlan(UpstreamErrorNote), 502)]
    ELSE IF r.body.json.t # "obj"
    THEN [done |-> TRUE, response |-> Unhandled(Exc("AttributeError"))]
    ELSE [done |-> FALSE, raw_output |-> DictGet(r.body.json.d, RESPONSE, Str(<<>>))]

\* mutant: an envelope without the text field is a malformed envelope
check_reply_MissingIs502(r) ==
    IF r.kind = "RequestException"
    THEN [done |-> TRUE, response |-> Respond(FallbackPlan(UnavailableNote), 502)]
    ELSE IF ~r.ok
    THEN [done |-> TRUE, response |-> Respond(FallbackPlan(UpstreamErrorNote), 502)]
    ELSE IF ~r.body.parses
    THEN [done |-> TRUE, response |-> Respond(FallbackPlan(EnvelopeInvalidNote), 502)]
    ELSE IF r.body.json.t # "obj"
    THEN [done |-> TRUE, response |-> Unhandled(Exc("AttributeError"))]
    ELSE IF ~DictHas(r.body.json.d, RESPONSE)
    THEN [done |-> TRUE, response |-> Respond(FallbackPlan(EnvelopeInvalidNote), 502)]
    ELSE [done |-> FALSE, raw_output |-> DictGet(r.body.json.d, RESPONSE, Str(<<>>))]

\* lines 225-262: from the outcome of the call to the model's text
check_reply(r) ==
    IF r.kind = "RequestException"
    THEN [done |-> TRUE, response |-> Respond(FallbackPlan(UnavailableNote), 502)]
    ELSE IF ~r.ok
    THEN [done |-> TRUE, response |-> Respond(FallbackPlan(UpstreamErrorNote), 502)]
    ELSE IF ~r.body.parses
    THEN [done |-> TRUE, response |-> Respond(FallbackPlan(EnvelopeInvalidNote), 502)]
    ELSE IF r.body.json.t # "obj"
    THEN [done |-> TRUE, response |-> Unhandled(Exc("AttributeError"))]
    ELSE [done |-> FALSE, raw_output |-> DictGet(r.body.json.d, RESPONSE, Str(<<>>))]

\* lines 263-265
respond_plan(raw) ==
    LET plan == safe_parse_llm_json(raw)
    IN IF IsExc(plan) THEN Unhandled(plan) ELSE Respond(plan, 200)

Receive ==
    /\ pc = "received"
    /\ LET p == prepare_call(method, body)
       IN IF p.done
          THEN /\ response' = p.response
               /\ pc' = "done"
               /\ UNCHANGED ollama_body
          ELSE /\ ollama_body' = p.ollama_body
               /\ pc' = "calling"
               /\ UNCHANGED response
    /\ UNCHANGED <<method, body, calls, reply, raw_output, cleaned>>

\* lines 221-224: requests.post returns or raises
PostOllama ==
    /\ pc = "calling"
    /\ \E r \in Replies : reply' = r
    /\ calls' = calls + 1
    /\ pc' = "replied"
    /\ UNCHANGED <<method, body, ollama_body, raw_output, cleaned, response>>

CheckReply ==
    /\ pc = "replied"
    /\ LET c == check_reply(reply)
       IN IF c.done
          THEN /\ response' = c.response
               /\ pc' = "done"
               /\ UNCHANGED raw_output
          ELSE /\ raw_output' = c.raw_output
               /\ pc' = "sanitizing"
               /\ UNCHANGED response
    /\ UNCHANGED <<method, body, ollama_body, calls, reply, cleaned>>

Sanitize ==
    /\ pc = "sanitizing"
    /\ cleaned' = strip_code_fences(raw_output)
    /\ response' = respond_plan(raw_output)
    /\ pc' = "done"
    /\ UNCHANGED <<method, body, ollama_body, calls, reply, raw_output>>

Next == Receive \/ PostOllama \/ CheckReply \/ Sanitize

Spec == Init /\ [][Next]_vars

\* ------------------------------ properties -----------------------------
WellFormedPlan(b) ==
    /\ b.t = "obj"
    /\ DictHas(b.d, STEPS) /\ DictGet(b.d, STEPS, None).t = "list"
    /\ DictHas(b.d, NOTES) /\ DictGet(b.d, NOTES, None).t = "str"

\* the sanitizer was applied to a text
SanitizedText == pc = "done" /\ raw_output.t = "str"

EmptyFenceLines == {<<BT>>, <<BT, BT>>, <<BT, "json">>, <<BT, "json", BT>>}

\* C1: whatever text the sanitizer is given, it does not raise and returns a
\* value whose steps is a list and whose notes is a string.
C1_SanitizeTotal ==
    SanitizedText => (response.status = 200 /\ WellFormedPlan(response.body))

\* C2: every POST ends with status 200, 400 or 502 and a well-formed plan as
\* its body; no exception leaves the handler.
C2_PostAlwaysAnswersPlan ==
    (pc = "done" /\ method = "POST")
        => (response.status \in {200, 400, 502} /\ WellFormedPlan(response.body))

\* C3: the outcome of the call is decided in the order transport error,
\* non-success status, unparseable envelope, each giving 502 with empty steps
\* and its own notes; 200 only when none of the three holds.
C3_FailureTableOrder ==
    (pc = "done" /\ reply # Unset) =>
        /\ reply.kind = "RequestException"
              => response = Respond(FallbackPlan(UnavailableNote), 502)
        /\ (reply.kind = "response" /\ ~reply.ok)
              => response = Respond(FallbackPlan(UpstreamErrorNote), 502)
        /\ (reply.kind = "response" /\ reply.ok /\ ~reply.body.parses)
              => response = Respond(FallbackPlan(EnvelopeInvalidNote), 502)
        /\ response.status = 200
              => (reply.kind = "response" /\ reply.ok /\ reply.body.parses)

C3_Witness ==
    /\ pc = "done"
    /\ reply = Response(FALSE, Unparseable)
    /\ response = Respond(FallbackPlan(UpstreamErrorNote), 502)

\* C4: at most one outbound call per request; exactly one for a POST whose
\* body was accepted as JSON, none for OPTIONS or a request answered 400.
C4_ExactlyOneCall ==
    /\ calls <= 1
    /\ (pc = "done" /\ method = "POST" /\ body.parses) => calls = 1
    /\ (pc = "done" /\ (method = "OPTIONS" \/ response.status = 400)) => calls = 0

\* C5: a JSON text encoding an object with a list steps and a string notes,
\* bare or wrapped in a fence, is sanitized to a plan with those steps and notes.
C5_PlanRoundTrip ==
    SanitizedText =>
        \A v \in PlanObjects :
            raw_output.s \in {Encode(v), Fenced(<<>>, Encode(v)), Fenced(<<"json">>, Encode(v))}
                => /\ response.status = 200
                   /\ response.body.t = "obj"
                   /\ DictGet(response.body.d, STEPS, Absent) = DictGet(v.d, STEPS, Absent)
                   /\ DictGet(response.body.d, NOTES, Absent) = DictGet(v.d, NOTES, Absent)

\* C6: a text that is not valid JSON once the fences are stripped (the empty
\* and the blank text included) is answered with exactly the empty plan and
\* the not-valid-JSON note.
C6_NonJsonFallsBack ==
    (SanitizedText /\ cleaned.t = "str" /\ ~json_loads(cleaned.s).ok)
        => response = Respond(FallbackPlan(NotValidJsonNote), 200)

C6_Witness ==
    /\ pc = "done"
    /\ raw_output = Str(<<SP>>)
    /\ cleaned = Str(<<>>)
    /\ response = Respond(FallbackPlan(NotValidJsonNote), 200)

\* C7: for a JSON object, steps that is missing or not a list becomes [] and
\* the plan is not rejected; notes stays when it is a string, becomes "" when
\* missing and becomes str(notes) otherwise.
C7_ObjectCoercion ==
    (SanitizedText /\ cleaned.t = "str" /\ json_loads(cleaned.s).ok
                   /\ json_loads(cleaned.s).val.t = "obj")
        => LET d == json_loads(cleaned.s).val.d
               st == DictGet(d, STEPS, Absent)
               n == DictGet(d, NOTES, Absent)
           IN /\ response.status = 200
              /\ response.body.t = "obj"
              /\ st.t # "list" => DictGet(response.body.d, STEPS, Absent) = List(<<>>)
              /\ n.t = "str" => DictGet(response.body.d, NOTES, Absent) = n
              /\ n = Absent => DictGet(response.body.d, NOTES, Absent) = Str(<<>>)
              /\ n.t \notin {"str", "absent"}
                    => DictGet(response.body.d, NOTES, Absent) = Str(PyStr(n))

C7_Witness ==
    /\ pc = "done"
    /\ raw_output = Str(Encode(Dict(Member(STEPS, Num(<<"1">>)) \o Member(NOTES, None))))
    /\ response.status = 200
    /\ DictGet(response.body.d, STEPS, Absent) = List(<<>>)
    /\ DictGet(response.body.d, NOTES, Absent) = Str(<<"None">>)

\* C8 as stated: a one-line fence with nothing inside is stripped to the
\* empty string.
C8_SingleLineFenceEmpty ==
    (SanitizedText /\ Strip(raw_output.s) \in EmptyFenceLines) => cleaned = Str(<<>>)

\* C8 amended: a one-line fence with nothing inside is returned trimmed, its
\* markers kept.
C8_SingleLineFenceKept ==
    (SanitizedText /\ Strip(raw_output.s) \in EmptyFenceLines)
        => cleaned = Str(Strip(raw_output.s))

C8_Witness ==
    /\ pc = "done"
    /\ raw_output = Str(<<BT, "json", BT>>)
    /\ cleaned = Str(<<BT, "json", BT>>)

\* C9 as stated: a text whose trimmed form does not begin with a fence is
\* returned equal to the input.
C9_PlainTextUnchanged ==
    (SanitizedText /\ ~StartsWithFence(Strip(raw_output.s))) => cleaned = raw_output

\* C9 amended: a text whose trimmed form does not begin with a fence is
\* returned with its leading and trailing whitespace removed.
C9_PlainTextTrimmed ==
    (SanitizedText /\ ~StartsWithFence(Strip(raw_output.s)))
        => cleaned = Str(Strip(raw_output.s))

C9_Witness ==
    /\ pc = "done"
    /\ raw_output = Str(<<SP, "x", NL>>)
    /\ cleaned = Str(<<"x">>)

\* C10: a successful reply whose envelope is an object without the text
\* field is answered 200 with the empty plan and the not-valid-JSON note.
C10_MissingTextIs200 ==
    (pc = "done" /\ reply # Unset /\ reply.kind = "response" /\ reply.ok
                 /\ reply.body.parses /\ reply.body.json.t = "obj"
                 /\ ~DictHas(reply.body.json.d, RESPONSE))
        => /\ raw_output = Str(<<>>)
           /\ response = Respond(FallbackPlan(NotValidJsonNote), 200)

C10_Witness ==
    /\ pc = "done"
    /\ reply = Response(TRUE, Parsed(Dict(<<[k |-> <<"done">>, v |-> Bool(TRUE)]>>)))
    /\ raw_output = Str(<<>>)
    /\ response.status = 200

====
